---------------------------- MODULE Spec2Model ----------------------------
(***************************************************************************)
(* The LSP client runtime of pkm-cli (src/src/lsp): one StandardRunner,    *)
(* its StandardRunnerWriter clones, the StandardRunnerReader task, the     *)
(* mpsc channel between the reader and the runner, the responses table,    *)
(* and the language server as the environment on the other end of the two  *)
(* pipes.                                                                  *)
(*                                                                         *)
(* Bytes.  Both pipes carry sequences of one-character strings.  Header    *)
(* blocks are modelled character by character.  A JSON body is modelled    *)
(* member by member: "{", "}" and one string per member ("id:1",           *)
(* "result:{}", ...), each counting as one byte of the body.               *)
(*                                                                         *)
(* u32.  TLC's integers are 32 bits wide and signed, so a u32 is held by   *)
(* its bit pattern read as a two's complement number: 0 .. 2^31-1 stand    *)
(* for themselves and -2^31 .. -1 stand for 2^31 .. 2^32-1.  U32_MAX is    *)
(* therefore -1, and wrapping addition is addition on the bit pattern.     *)
(***************************************************************************)
EXTENDS Integers, Sequences, FiniteSets, TLC

\* Bounds of the model.
NumSenders == 2
MaxFacadeReturns == 2
MaxSends == 3
MaxFrames == 2
MaxBadFrames == 1
MaxResponseCalls == 2
MaxWriters == 1

Senders == 1..NumSenders

\* ------------------------------------------------------------------ u32
U32_MAX == -1
I32_MAX == 2147483647
I32_MIN == (-I32_MAX) - 1

\* fetch_add(1) as it would be with an addition that stops at the maximum.
SaturatingAdd1(x) ==
    IF x = U32_MAX THEN U32_MAX ELSE IF x = I32_MAX THEN I32_MIN ELSE x + 1

\* AtomicU32::fetch_add(1): the value stored afterwards (wrapping).
WrappingAdd1(x) == IF x = I32_MAX THEN I32_MIN ELSE x + 1

\* Unsigned order on bit patterns.
U32Less(a, b) ==
    IF (a >= 0) = (b >= 0) THEN a < b ELSE a >= 0

\* The decimal text of a u32 (the values below 2^31 exactly, the others as
\* an offset from 2^32).
U32Text(x) == IF x >= 0 THEN ToString(x) ELSE "2^32" \o ToString(x)

\* The u32 values the model's frames can carry.
U32Sample == (0..(MaxSends + 1)) \cup {U32_MAX - 1, U32_MAX}

\* ------------------------------------------------------------ sequences
\* The element of a one-element set.  The operators below that compute a
\* value in steps name each intermediate value as the variable of a
\* one-element set, so that it is computed once.
The(S) == CHOOSE x \in S : TRUE

Take(s, n) == SubSeq(s, 1, n)
Drop(s, n) == SubSeq(s, n + 1, Len(s))
IsPrefix(p, s) == Len(p) <= Len(s) /\ Take(s, Len(p)) = p

CR == "\r"
LF == "\n"
CRLF == <<CR, LF>>
Whitespace == {" ", "\t", CR, LF}

RECURSIVE TrimStart(_)
TrimStart(s) ==
    IF s # <<>> /\ Head(s) \in Whitespace THEN TrimStart(Tail(s)) ELSE s

RECURSIVE TrimEnd(_)
TrimEnd(s) ==
    IF s # <<>> /\ s[Len(s)] \in Whitespace
    THEN TrimEnd(Take(s, Len(s) - 1)) ELSE s

Trim(s) == The({TrimStart(t) : t \in {TrimEnd(s)}})

\* str::to_lowercase on the letters the model's headers use.
LowerChar(c) ==
    IF c = "C" THEN "c" ELSE IF c = "L" THEN "l" ELSE c

ToLowercase(s) == [i \in 1..Len(s) |-> LowerChar(s[i])]

\* --------------------------------------------------------- decimal text
Digits == <<"0", "1", "2", "3", "4", "5", "6", "7", "8", "9">>
DigitChars == {Digits[i] : i \in 1..10}
DigitValue(c) == (CHOOSE i \in 1..10 : Digits[i] = c) - 1

\* format!("{}", n) for a usize.
RECURSIVE FormatUsize(_)
FormatUsize(n) ==
    IF n < 10 THEN <<Digits[n + 1]>>
    ELSE FormatUsize(n \div 10) \o <<Digits[(n % 10) + 1]>>

RECURSIVE DigitsValue(_)
DigitsValue(s) ==
    IF s = <<>> THEN 0
    ELSE DigitsValue(Take(s, Len(s) - 1)) * 10 + DigitValue(s[Len(s)])

\* str::parse::<usize>(): an optional "+", then one or more digits.
\* -1 stands for Err(ParseIntError).
ParseUsize(s) ==
    The({IF d # <<>> /\ (\A i \in 1..Len(d) : d[i] \in DigitChars)
         THEN DigitsValue(d) ELSE -1 :
         d \in {IF s # <<>> /\ Head(s) = "+" THEN Tail(s) ELSE s}})

\* ----------------------------------------------------------------- JSON
InitializeMethod == "initialize"
DefinitionMethod == "textDocument/definition"
DidOpenMethod == "textDocument/didOpen"
FacadeMethods == {InitializeMethod, DefinitionMethod, DidOpenMethod}
Methods == {DefinitionMethod}
\* What a request's params serialize to; "unserializable" makes
\* serde_json::to_string fail.
Params == {"params:{}", "unserializable"}

JsonrpcTok == "jsonrpc:2.0"
IdTok(i) == "id:" \o U32Text(i)
MethodTok(m) == "method:" \o m
\* An empty result object, and a single Location object.
EmptyResult == "result:{}"
LocationUri == "file:///notes/b.md"
LocationResult == "result:{uri:" \o LocationUri \o ",range:{}}"
ResultToks == {EmptyResult, LocationResult}
ErrorTok == "error:{}"
IdToks == {IdTok(i) : i \in U32Sample}
\* A member whose name is id and whose value is no u32.
BadIdTok == "id:x"
MemberToks ==
    {JsonrpcTok, ErrorTok, BadIdTok, "params:{}"} \cup IdToks \cup ResultToks
        \cup {MethodTok(m) : m \in FacadeMethods}

\* A Request, request.rs:5-9.
Request(id, method, content) ==
    [id |-> id, method |-> method, content |-> content]

\* Request::from_serializable, request.rs:12-18: the id is 0 until send sets it.
from_serializable(method, value) == Request(0, method, value)

\* impl Serialize for Request, request.rs:21-33, through serde_json::to_string.
to_string(msg) ==
    <<"{", JsonrpcTok, IdTok(msg.id), MethodTok(msg.method), msg.content, "}">>

to_string_fails(msg) == msg.content = "unserializable"

ContentLength == <<"C", "o", "n", "t", "e", "n", "t", "-", "L", "e", "n", "g", "t", "h">>

\* format!("Content-Length:{}\r\n\r\n{}", req_b.len(), &req_b), runner_standard.rs:195.
headers_of(req_b) ==
    ContentLength \o <<":">> \o FormatUsize(Len(req_b)) \o CRLF \o CRLF \o req_b


\* --------------------------------------------------- reading one frame
\* The position of the first line feed of s, or 0.
LfPos(s) ==
    IF \E i \in 1..Len(s) : s[i] = LF
    THEN CHOOSE i \in 1..Len(s) : s[i] = LF /\ \A j \in 1..(i - 1) : s[j] # LF
    ELSE 0

\* AsyncBufReadExt::read_line: the bytes up to and including the first line
\* feed; at end-of-stream whatever is left (nothing, when nothing is left);
\* "wait" while the line is incomplete and the stream is open.
read_line(s, eof) ==
    The({IF p > 0 THEN [st |-> "ok", line |-> Take(s, p), rest |-> Drop(s, p)]
         ELSE IF eof THEN [st |-> "ok", line |-> s, rest |-> <<>>]
         ELSE [st |-> "wait", line |-> <<>>, rest |-> s] : p \in {LfPos(s)}})

\* A JSON member contains the colon between its name and its value.
HasColon(c) == c = ":" \/ c \in MemberToks

ColonPos(line) ==
    IF \E i \in 1..Len(line) : HasColon(line[i])
    THEN CHOOSE i \in 1..Len(line) :
            HasColon(line[i]) /\ \A j \in 1..(i - 1) : ~HasColon(line[j])
    ELSE 0

\* HashMap::insert on the headers.
HeaderInsert(headers, key, value) ==
    [k \in DOMAIN headers \cup {key} |-> IF k = key THEN value ELSE headers[k]]

NoHeaders == [k \in {} |-> <<>>]

\* The header loop of read_response, runner_standard.rs:147-158.
RECURSIVE read_headers(_, _, _)
read_headers(s, eof, headers) ==
    The({IF l.st = "wait" THEN [st |-> "wait", headers |-> headers, rest |-> s]
         ELSE IF TrimEnd(l.line) = <<>>
              THEN [st |-> "ok", headers |-> headers, rest |-> l.rest]
         ELSE The({IF p = 0
                   THEN [st |-> "err", headers |-> headers, rest |-> l.rest]
                   ELSE The({read_headers(l.rest, eof, inserted) :
                             inserted \in {HeaderInsert(headers,
                                 ToLowercase(Trim(Take(l.line, p - 1))),
                                 Trim(Drop(l.line, p)))}}) :
                   p \in {ColonPos(l.line)}}) :
         l \in {read_line(s, eof)}})

\* serde_json::from_slice::<Response>, response.rs:7-23 and 26: the body is one
\* JSON object, no member name occurs twice among jsonrpc, id and result, and
\* jsonrpc, a u32 id and result are all there. Other members are ignored.
MemberName(tok) ==
    IF tok = JsonrpcTok THEN "jsonrpc"
    ELSE IF tok \in IdToks \cup {BadIdTok} THEN "id"
    ELSE IF tok \in ResultToks THEN "result"
    ELSE "other"

IsJsonObject(body) ==
    /\ Len(body) >= 2
    /\ body[1] = "{"
    /\ body[Len(body)] = "}"
    /\ \A i \in 2..(Len(body) - 1) : body[i] \in MemberToks

MembersNamed(body, name) ==
    {i \in 2..(Len(body) - 1) : MemberName(body[i]) = name}

from_slice_ok(body) ==
    /\ IsJsonObject(body)
    /\ \A name \in {"jsonrpc", "id", "result"} :
          Cardinality(MembersNamed(body, name)) = 1
    /\ \A i \in MembersNamed(body, "id") : body[i] \in IdToks

MemberOf(body, name) == body[CHOOSE i \in MembersNamed(body, name) : TRUE]

\* Response::new, response.rs:25-30.
Response_new(headers, body) ==
    [headers |-> headers,
     id |-> CHOOSE i \in U32Sample : IdTok(i) = MemberOf(body, "id"),
     result |-> MemberOf(body, "result")]

NoResponse == [headers |-> NoHeaders, id |-> 0, result |-> ""]

ContentLengthLower == ToLowercase(ContentLength)

\* read_response as it would be if it threw away what its buffered reader
\* holds beyond the body.
read_response_dropping_buffer(s, eof) ==
    The({IF h.st = "ok" /\ ContentLengthLower \in DOMAIN h.headers
            /\ ParseUsize(h.headers[ContentLengthLower]) >= 0
            /\ Len(h.rest) >= ParseUsize(h.headers[ContentLengthLower])
            /\ from_slice_ok(Take(h.rest, ParseUsize(h.headers[ContentLengthLower])))
         THEN [st |-> "ok",
               res |-> Response_new(h.headers,
                          Take(h.rest, ParseUsize(h.headers[ContentLengthLower]))),
               rest |-> <<>>]
         ELSE [st |-> IF eof THEN "err" ELSE "wait", res |-> NoResponse, rest |-> s] :
         h \in {read_headers(s, eof, NoHeaders)}})

\* StandardRunnerReader::read_response, runner_standard.rs:144-169.
\* st is "ok" (res is the Response), "err", or "wait" (the frame is not all
\* there and the stream is still open); rest is what is left of the stream.
read_response(s, eof) ==
    The({IF h.st # "ok" THEN [st |-> h.st, res |-> NoResponse, rest |-> h.rest]
         ELSE The({
            IF length < 0 THEN [st |-> "err", res |-> NoResponse, rest |-> h.rest]
            ELSE IF Len(h.rest) < length
                 THEN IF eof THEN [st |-> "err", res |-> NoResponse, rest |-> <<>>]
                      ELSE [st |-> "wait", res |-> NoResponse, rest |-> s]
            ELSE The({
                IF ~from_slice_ok(body)
                THEN [st |-> "err", res |-> NoResponse,
                      rest |-> Drop(h.rest, length)]
                ELSE [st |-> "ok", res |-> Response_new(h.headers, body),
                      rest |-> Drop(h.rest, length)] :
                body \in {Take(h.rest, length)}}) :
            length \in {IF ContentLengthLower \in DOMAIN h.headers
                        THEN ParseUsize(h.headers[ContentLengthLower])
                        ELSE -1}}) :
         h \in {read_headers(s, eof, NoHeaders)}})

\* ------------------------------------------- a request frame, read back
\* A params value with a character outside ASCII: two bytes in UTF-8.
WideParams == "params:{word:U+00E9}"
WideChars == {WideParams}
\* The second byte of a two-byte character.
Continuation == "0x80..0xBF"

\* The params the round trip is tried with.
CodecParams == {"params:{}", "params:{line:4,character:10}", WideParams}

\* str::as_bytes: the UTF-8 bytes of a string.
RECURSIVE as_bytes(_)
as_bytes(str) ==
    IF str = <<>> THEN <<>>
    ELSE (IF Head(str) \in WideChars THEN <<Head(str), Continuation>>
          ELSE <<Head(str)>>) \o as_bytes(Tail(str))

\* The string a UTF-8 byte sequence spells.
from_utf8(bytes) == SelectSeq(bytes, LAMBDA b : b # Continuation)

\* send's encoding with the length counted in characters.
send_encoding_chars(msg) ==
    ContentLength \o <<":">> \o FormatUsize(Len(to_string(msg))) \o CRLF \o CRLF
        \o as_bytes(to_string(msg))

\* send's encoding, runner_standard.rs:193-197: req_b.len() is the length of
\* req_b in bytes, and the bytes of the formatted string are written.
send_encoding(msg) == headers_of(as_bytes(to_string(msg)))

\* The frame decoding of read_response, runner_standard.rs:145-166: the header
\* loop, the content-length, and read_exact of that many bytes.
read_frame(s, eof) ==
    The({IF h.st # "ok"
         THEN [st |-> h.st, length |-> -1, body |-> <<>>, rest |-> h.rest]
         ELSE The({
            IF length < 0
            THEN [st |-> "err", length |-> -1, body |-> <<>>, rest |-> h.rest]
            ELSE IF Len(h.rest) < length
                 THEN IF eof
                      THEN [st |-> "err", length |-> length, body |-> <<>>,
                            rest |-> <<>>]
                      ELSE [st |-> "wait", length |-> length, body |-> <<>>,
                            rest |-> s]
            ELSE [st |-> "ok", length |-> length, body |-> Take(h.rest, length),
                  rest |-> Drop(h.rest, length)] :
            length \in {IF ContentLengthLower \in DOMAIN h.headers
                        THEN ParseUsize(h.headers[ContentLengthLower])
                        ELSE -1}}) :
         h \in {read_headers(s, eof, NoHeaders)}})

\* The members of a JSON object between its braces.
JsonMembers(str) ==
    IF Len(str) >= 2 /\ str[1] = "{" /\ str[Len(str)] = "}"
    THEN {str[k] : k \in 2..(Len(str) - 1)}
    ELSE {}

\* The ids, methods and params the JSON of a body carries.
IdsIn(body) == {i \in U32Sample : IdTok(i) \in JsonMembers(from_utf8(body))}
MethodsIn(body) ==
    {m \in FacadeMethods : MethodTok(m) \in JsonMembers(from_utf8(body))}
ParamsIn(body) == {p \in CodecParams : p \in JsonMembers(from_utf8(body))}

\* ------------------------------------------------- what the server writes
\* A well-formed response to request i, spec section 6.
ResponseBody(i) == <<"{", JsonrpcTok, IdTok(i), "result:{}", "}">>

Framed(length, body) ==
    ContentLength \o <<":", " ">> \o length \o CRLF \o CRLF \o body

ResponseFrame(i) == Framed(FormatUsize(Len(ResponseBody(i))), ResponseBody(i))

\* A JSON-RPC error response to request i: an error member and no result.
ErrorResponseBody(i) == <<"{", JsonrpcTok, IdTok(i), ErrorTok, "}">>
ErrorResponseFrame(i) ==
    Framed(FormatUsize(Len(ErrorResponseBody(i))), ErrorResponseBody(i))

\* Frames read_response rejects.
BadFrames ==
    LET i == 0 IN
    {   \* a header line without a colon
        ContentLength \o <<" ">> \o FormatUsize(5) \o CRLF \o CRLF \o ResponseBody(i),
        \* no content-length header
        <<"X", ":", "1">> \o CRLF \o CRLF \o ResponseBody(i),
        \* a content-length that is no number
        Framed(<<"x">>, ResponseBody(i)),
        \* a body one byte short of its content-length
        Framed(FormatUsize(6), ResponseBody(i)),
        \* a body that is not JSON
        Framed(FormatUsize(4), <<"{", JsonrpcTok, IdTok(i), "result:{}">>),
        \* an error response: no result member
        ErrorResponseFrame(i),
        \* a notification: no id member
        Framed(FormatUsize(5),
               <<"{", JsonrpcTok, MethodTok("textDocument/definition"), "params:{}", "}">>)
    }


\* ------------------------------------------------------------------ state
\* channel(100), runner_standard.rs:124.
ChannelCapacity == 100

VARIABLES
    request,        \* StandardRunner.request: the shared AtomicU32
    writer,         \* the Mutex around ChildStdin: 0, or the sender holding it
    stdin,          \* history: the bytes the child's stdin accepted, in order
    stdin_broken,   \* the child's stdin no longer accepts bytes
    spc,            \* where each StandardRunnerWriter clone is in send
    sbuf,           \* per sender: the bytes of its frame still to be written
    calls,          \* history: every send call, in the order of the id fetches
    past,           \* history: the send calls made before the ones in calls
    stdout,         \* bytes the server wrote that the reader has not consumed
    stdout_eof,     \* the server closed its stdout
    served,         \* history: the frames the server wrote, in order
    rpc,            \* the reader task: "read", "send" or "done"
    rres,           \* the Response the reader holds between read and send
    rerrors,        \* history: how many times read_response returned an error
    chan,           \* the mpsc channel's buffer
    responses,      \* StandardRunner.responses
    cpc,            \* the runner's owner: "idle", or "recv" inside response
    cr,             \* the id response was called with
    returns,        \* history: every return of response, in order
    began,          \* history: for every call of response, whether the reader loop had ended
    lsp,            \* the LSP facade: where it is, and what its calls returned
    codec,          \* one request taken through send's encoding and the reader's decoding
    life            \* the StandardRunner value, the writers it handed out, and the child

sender_vars == <<request, writer, stdin, stdin_broken, spc, sbuf, calls, past>>
server_vars == <<stdout, stdout_eof, served>>
reader_vars == <<rpc, rres, rerrors>>
caller_vars == <<responses, cpc, cr, returns, began>>
vars == <<sender_vars, server_vars, reader_vars, chan, caller_vars, lsp, codec, life>>

\* No facade: the runner is used directly, or LSP::new was not called yet.
\* pc is "none", "send" (inside sender.send), "await" (inside
\* runner.response), "ready" (the LSP value exists and no call is in
\* progress) or "failed" (LSP::new returned an error).  nsend and nret are
\* the lengths of calls and returns when the call in progress began to send
\* and to await; closed tells whether the reader task had ended when the call
\* was made; returns lists what the calls on the LSP value returned.
NoFacade ==
    [pc |-> "none", method |-> "", nsend |-> 0, nret |-> 0, closed |-> FALSE,
     returns |-> <<>>]

\* HashMap::new(), and the table as a function from the keys it holds.
\* StandardRunner::new, runner_standard.rs:74-88: the runner is there, the
\* child runs.  writers counts the StandardRunnerWriter values alive in the
\* specification that follows the runner to its drop.
Born == [runner |-> "alive", writers |-> 0, child |-> "running", reaped |-> FALSE]

NoCodec ==
    [pc |-> "idle", msg |-> Request(0, "", ""), bytes |-> <<>>, tail |-> <<>>,
     frame |-> [st |-> "wait", length |-> -1, body |-> <<>>, rest |-> <<>>]]

EmptyMap == [k \in {} |-> NoResponse]

\* StandardRunner::new, runner_standard.rs:74-88, StandardRunnerReader::new,
\* runner_standard.rs:123-133, and a child that has written nothing yet.
Init ==
    /\ request = 0
    /\ writer = 0
    /\ stdin = <<>>
    /\ stdin_broken = FALSE
    /\ spc = [s \in Senders |-> "idle"]
    /\ sbuf = [s \in Senders |-> <<>>]
    /\ calls = <<>>
    /\ past = [origin |-> 0, failed |-> {}]
    /\ stdout = <<>>
    /\ stdout_eof = FALSE
    /\ served = <<>>
    /\ rpc = "read"
    /\ rres = NoResponse
    /\ rerrors = 0
    /\ chan = <<>>
    /\ responses = EmptyMap
    /\ cpc = "idle"
    /\ cr = 0
    /\ returns = <<>>
    /\ began = <<>>
    /\ lsp = NoFacade
    /\ codec = NoCodec
    /\ life = Born

\* ------------------------------------------------ StandardRunnerWriter
\* The index in calls of sender s's latest call.
LastCall(s) ==
    CHOOSE i \in 1..Len(calls) :
        calls[i].s = s /\ \A j \in (i + 1)..Len(calls) : calls[j].s # s

Returned(s, ret) == [calls EXCEPT ![LastCall(s)].ret = ret]

\* next_request_id, runner_standard.rs:178-180: the value fetched.
next_request_id == request

\* send, runner_standard.rs:189-195: msg.into(), the id, the encoding.
\* to_string failing returns the error; the id is already taken.
BeginSend(s, method, params) ==
    LET id == next_request_id
        msg == [from_serializable(method, params) EXCEPT !.id = id]
    IN /\ spc[s] = "idle"
       /\ Len(calls) < MaxSends
       /\ request' = WrappingAdd1(request)
       /\ IF to_string_fails(msg)
          THEN /\ calls' = Append(calls, [s |-> s, id |-> id, method |-> method, ret |-> "err"])
               /\ UNCHANGED <<spc, sbuf>>
          ELSE /\ calls' = Append(calls, [s |-> s, id |-> id, method |-> method, ret |-> "pending"])
               /\ spc' = [spc EXCEPT ![s] = "lock"]
               /\ sbuf' = [sbuf EXCEPT ![s] = headers_of(to_string(msg))]
       /\ UNCHANGED <<writer, stdin, stdin_broken, past>>
       /\ UNCHANGED <<server_vars, reader_vars, chan, caller_vars, lsp, codec, life>>

\* The lock as it would be if lock() never made a caller wait.
LockNeverHeld == TRUE

\* The lock as it would be if the reader task took the same lock for the time
\* it waits for the child's next frame.
LockSharedWithReader == writer = 0 /\ rpc # "read"

\* self.writer.lock().unwrap(), runner_standard.rs:196: lock() returns once
\* no other caller holds the guard.
LockFree == writer = 0

Lock(s) ==
    /\ spc[s] = "lock"
    /\ LockFree
    /\ writer' = s
    /\ spc' = [spc EXCEPT ![s] = "write"]
    /\ UNCHANGED <<request, stdin, stdin_broken, sbuf, calls, past>>
    /\ UNCHANGED <<server_vars, reader_vars, chan, caller_vars, lsp, codec, life>>

\* How many bytes one write on the pipe may take of buf: all of it, or the
\* header block alone.
WriteSizes(buf) ==
    {Len(buf)} \cup {n \in {LfPos(buf) + 2} : LfPos(buf) > 0 /\ n < Len(buf)}

\* writer.write_all(..).await, runner_standard.rs:197, one write at a time.
Write(s) ==
    /\ spc[s] = "write"
    /\ ~stdin_broken
    /\ \E n \in WriteSizes(sbuf[s]) :
          /\ stdin' = stdin \o Take(sbuf[s], n)
          /\ sbuf' = [sbuf EXCEPT ![s] = Drop(sbuf[s], n)]
          /\ spc' = [spc EXCEPT ![s] = IF n = Len(sbuf[s]) THEN "flush" ELSE "write"]
    /\ UNCHANGED <<request, writer, stdin_broken, calls, past>>
    /\ UNCHANGED <<server_vars, reader_vars, chan, caller_vars, lsp, codec, life>>

\* WriteFail as it would be if a failed write tore the session down: the
\* reader task is stopped along with the failing send.
WriteFailStopsReader(s) ==
    /\ spc[s] = "write"
    /\ stdin_broken
    /\ writer' = 0
    /\ spc' = [spc EXCEPT ![s] = "idle"]
    /\ sbuf' = [sbuf EXCEPT ![s] = <<>>]
    /\ calls' = Returned(s, "err")
    /\ rpc' = "done"
    /\ UNCHANGED <<request, stdin, stdin_broken, past>>
    /\ UNCHANGED <<server_vars, rres, rerrors, chan, caller_vars, lsp, codec, life>>

\* write_all returning an error: `?` returns it and drops the guard.
WriteFail(s) ==
    /\ spc[s] = "write"
    /\ stdin_broken
    /\ writer' = 0
    /\ spc' = [spc EXCEPT ![s] = "idle"]
    /\ sbuf' = [sbuf EXCEPT ![s] = <<>>]
    /\ calls' = Returned(s, "err")
    /\ UNCHANGED <<request, stdin, stdin_broken, past>>
    /\ UNCHANGED <<server_vars, reader_vars, chan, caller_vars, lsp, codec, life>>

\* writer.flush().await and Ok(id), runner_standard.rs:198-200.
Flush(s) ==
    /\ spc[s] = "flush"
    /\ ~stdin_broken
    /\ writer' = 0
    /\ spc' = [spc EXCEPT ![s] = "idle"]
    /\ calls' = Returned(s, "ok")
    /\ UNCHANGED <<request, stdin, stdin_broken, sbuf, past>>
    /\ UNCHANGED <<server_vars, reader_vars, chan, caller_vars, lsp, codec, life>>

\* flush returning an error.
FlushFail(s) ==
    /\ spc[s] = "flush"
    /\ stdin_broken
    /\ writer' = 0
    /\ spc' = [spc EXCEPT ![s] = "idle"]
    /\ calls' = Returned(s, "err")
    /\ UNCHANGED <<request, stdin, stdin_broken, sbuf, past>>
    /\ UNCHANGED <<server_vars, reader_vars, chan, caller_vars, lsp, codec, life>>

\* ------------------------------------------------------------ the child
\* The ids of the requests issued so far.
IssuedIds == {calls[i].id : i \in 1..Len(calls)}

\* The child closes its stdin (or exits): later writes fail.
ChildClosesStdin ==
    /\ ~stdin_broken
    /\ stdin_broken' = TRUE
    /\ UNCHANGED <<request, writer, stdin, spc, sbuf, calls, past>>
    /\ UNCHANGED <<server_vars, reader_vars, chan, caller_vars, lsp, codec, life>>

\* The entries of served: a well-formed response to id, or a rejected frame.
Good(i) == [ok |-> TRUE, id |-> i]
Bad == [ok |-> FALSE, id |-> 0]
NumBad == Cardinality({k \in 1..Len(served) : ~served[k].ok})

ServerWrites(bytes, entry) ==
    /\ ~stdout_eof
    /\ Len(served) < MaxFrames
    /\ stdout' = stdout \o bytes
    /\ served' = Append(served, entry)
    /\ UNCHANGED stdout_eof
    /\ UNCHANGED <<sender_vars, reader_vars, chan, caller_vars, lsp, codec, life>>

\* The server answers a request (any request issued so far, any number of
\* times, in any order).
ServerAnswers == \E i \in IssuedIds : ServerWrites(ResponseFrame(i), Good(i))

\* The server writes a frame read_response rejects.
ServerWritesBad ==
    /\ NumBad < MaxBadFrames
    /\ \E b \in BadFrames : ServerWrites(b, Bad)

\* The child closes its stdout (or exits).
ServerCloses ==
    /\ ~stdout_eof
    /\ stdout_eof' = TRUE
    /\ UNCHANGED <<stdout, served>>
    /\ UNCHANGED <<sender_vars, reader_vars, chan, caller_vars, lsp, codec, life>>

\* ------------------------------------------------ StandardRunnerReader
\* ReaderRead as it would be if the loop skipped a frame it cannot decode and
\* went on with the next one, stopping at end-of-stream only.
ReaderReadResync ==
    LET r == read_response(stdout, stdout_eof)
    IN /\ rpc = "read"
       /\ r.st # "wait"
       /\ stdout' = r.rest
       /\ IF r.st = "ok"
          THEN /\ rpc' = "send"
               /\ rres' = r.res
               /\ UNCHANGED rerrors
          ELSE /\ rpc' = IF stdout_eof THEN "done" ELSE "read"
               /\ rerrors' = rerrors + 1
               /\ UNCHANGED rres
       /\ UNCHANGED <<stdout_eof, served, chan>>
       /\ UNCHANGED <<sender_vars, caller_vars, lsp, codec, life>>

\* start, runner_standard.rs:138: read_response().await?  An error ends the
\* task, which drops the reader and with it the channel's only Sender.
ReaderRead ==
    LET r == read_response(stdout, stdout_eof)
    IN /\ rpc = "read"
       /\ r.st # "wait"
       /\ stdout' = r.rest
       /\ IF r.st = "ok"
          THEN /\ rpc' = "send"
               /\ rres' = r.res
               /\ UNCHANGED rerrors
          ELSE /\ rpc' = "done"
               /\ rerrors' = rerrors + 1
               /\ UNCHANGED rres
       /\ UNCHANGED <<stdout_eof, served, chan>>
       /\ UNCHANGED <<sender_vars, caller_vars, lsp, codec, life>>

\* ReaderSend as it would be if the newest frame went to the head of the
\* queue.
ReaderSendToFront ==
    /\ rpc = "send"
    /\ Len(chan) < ChannelCapacity
    /\ chan' = <<rres>> \o chan
    /\ rpc' = "read"
    /\ rres' = NoResponse
    /\ UNCHANGED rerrors
    /\ UNCHANGED <<sender_vars, server_vars, caller_vars, lsp, codec, life>>

\* ReaderSend as it would be with try_send: a frame that finds the channel
\* full is discarded and the loop goes on.
ReaderSendOrDiscard ==
    /\ rpc = "send"
    /\ chan' = IF Len(chan) < ChannelCapacity THEN Append(chan, rres) ELSE chan
    /\ rpc' = "read"
    /\ rres' = NoResponse
    /\ UNCHANGED rerrors
    /\ UNCHANGED <<sender_vars, server_vars, caller_vars, lsp, codec, life>>

\* start, runner_standard.rs:140: self.sync.send(res).await, which waits
\* while the channel is full.
ReaderSend ==
    /\ rpc = "send"
    /\ Len(chan) < ChannelCapacity
    /\ chan' = Append(chan, rres)
    /\ rpc' = "read"
    /\ rres' = NoResponse
    /\ UNCHANGED rerrors
    /\ UNCHANGED <<sender_vars, server_vars, caller_vars, lsp, codec, life>>

\* The channel as it would be if a clone of the Sender outlived the reader
\* task.
SenderKeptAlive == FALSE

\* The channel is closed once its Sender is dropped.
ChannelClosed == rpc = "done"

\* ------------------------------------------------------ StandardRunner
\* Insert as it would be with the frame filed under the id after its own
\* (the ids of lsp.rs start at 1, those of the runner at 0).
InsertOffByOne(map, resp) ==
    [k \in DOMAIN map \cup {WrappingAdd1(resp.id)} |->
        IF k = WrappingAdd1(resp.id) THEN resp ELSE map[k]]

\* HashMap::insert(resp.id, resp), runner_standard.rs:97.
Insert(map, resp) ==
    [k \in DOMAIN map \cup {resp.id} |-> IF k = resp.id THEN resp ELSE map[k]]

\* Remove as it would be if response read the entry with get and left it in
\* the table.
KeepEntry(map, r) == map

\* Remove as it would be if the call took its entry by emptying the table.
RemoveAndClear(map, r) == EmptyMap

\* HashMap::remove(&r), runner_standard.rs:102: the table afterwards.
Remove(map, r) == [k \in DOMAIN map \ {r} |-> map[k]]

\* The ids response may be called with: the ids send has returned.
SentIds == {calls[i].id : i \in {j \in 1..Len(calls) : calls[j].ret = "ok"}}

\* The call response(r), runner_standard.rs:93: up to the first recv().await.
CallResponse(r) ==
    /\ cpc = "idle"
    /\ Len(returns) < MaxResponseCalls
    /\ cpc' = "recv"
    /\ cr' = r
    /\ began' = Append(began, ChannelClosed)
    /\ UNCHANGED <<responses, returns>>
    /\ UNCHANGED <<sender_vars, server_vars, reader_vars, chan, lsp, codec, life>>

\* RecvSome as it would be if response returned the first frame it receives,
\* whatever its id.
RecvSomeFirstFrame ==
    /\ cpc = "recv"
    /\ chan # <<>>
    /\ chan' = Tail(chan)
    /\ returns' = Append(returns, [r |-> cr, ok |-> TRUE, response |-> Head(chan)])
    /\ cpc' = "idle"
    /\ UNCHANGED <<responses, cr, began>>
    /\ UNCHANGED <<sender_vars, server_vars, reader_vars, lsp, codec, life>>

\* recv() yields Some(resp), runner_standard.rs:96-98, then the table is
\* asked for r, runner_standard.rs:102-105.
RecvSome ==
    LET resp == Head(chan)
        table == Insert(responses, resp)
    IN /\ cpc = "recv"
       /\ chan # <<>>
       /\ chan' = Tail(chan)
       /\ IF cr \in DOMAIN table
          THEN /\ responses' = Remove(table, cr)
               /\ returns' = Append(returns, [r |-> cr, ok |-> TRUE, response |-> table[cr]])
               /\ cpc' = "idle"
          ELSE /\ responses' = table
               /\ UNCHANGED <<returns, cpc>>
       /\ UNCHANGED <<cr, began>>
       /\ UNCHANGED <<sender_vars, server_vars, reader_vars, lsp, codec, life>>

\* RecvNone as it would be if response gave up as soon as the channel is
\* closed, whatever the channel still holds.
RecvNoneWhenClosed ==
    /\ cpc = "recv"
    /\ ChannelClosed
    /\ returns' = Append(returns, [r |-> cr, ok |-> FALSE, response |-> NoResponse])
    /\ cpc' = "idle"
    /\ UNCHANGED <<responses, cr, began>>
    /\ UNCHANGED <<sender_vars, server_vars, reader_vars, chan, lsp, codec, life>>

\* recv() yields None, runner_standard.rs:99: the channel is closed and empty.
RecvNone ==
    /\ cpc = "recv"
    /\ chan = <<>>
    /\ ChannelClosed
    /\ returns' = Append(returns, [r |-> cr, ok |-> FALSE, response |-> NoResponse])
    /\ cpc' = "idle"
    /\ UNCHANGED <<responses, cr, began>>
    /\ UNCHANGED <<sender_vars, server_vars, reader_vars, chan, lsp, codec, life>>

\* ---------------------------------------------------------- the system
\* The StandardRunnerWriter the facade holds, mod.rs:49-50.
Owner == 1

\* ------------------------------------------------------------ LSP facade
runner_vars == <<sender_vars, server_vars, reader_vars, chan, caller_vars>>

\* A call on the LSP value returns.  send and resp are the positions in calls
\* and returns of the call's send and of its response (0: it made none).
FacadeReturn(ok, value, resp) ==
    Append(lsp.returns,
           [method |-> lsp.method, ok |-> ok, closed |-> lsp.closed,
            value |-> value, send |-> lsp.nsend + 1, resp |-> resp])

\* LSP::new as it would be if init discarded what response returns.
InitOutcomeIgnoringResponse(ok) == "ready"

\* LSP::new, mod.rs:52-54: lsp.init(workspace).await? and Ok(lsp).
InitOutcome(ok) == IF ok THEN "ready" ELSE "failed"

\* The methods of a call on an LSP value as they would be if init were
\* public and could be called again.
FacadeCallMethodsWithInit == FacadeMethods

\* goto_defintion, mod.rs:90-117, and open_virtual, mod.rs:119-137.
FacadeCallMethods == {DefinitionMethod, DidOpenMethod}

\* Response::result that takes any result for a list of no locations.
GotoResultIgnoringBody(resp) == [ok |-> TRUE, value |-> <<>>]

\* Response::result for a GotoDefinitionResponse, response.rs:32-34 and
\* mod.rs:116: a Location object is the Scalar variant; an empty object is
\* none of the variants.
GotoResult(resp) ==
    IF resp.result = LocationResult
    THEN [ok |-> TRUE, value |-> <<LocationUri>>]
    ELSE [ok |-> FALSE, value |-> <<>>]

\* LSP::new, mod.rs:48-52, and init up to its send, mod.rs:60-84.  Uri::from_str
\* rejects some workspace paths, and init returns before it sends anything.
LspNew ==
    /\ lsp.pc = "none"
    /\ \E valid \in BOOLEAN :
          lsp' = IF valid
                 THEN [lsp EXCEPT !.pc = "send", !.method = InitializeMethod,
                                  !.nsend = Len(calls), !.closed = ChannelClosed]
                 ELSE [lsp EXCEPT !.pc = InitOutcome(FALSE)]
    /\ UNCHANGED <<runner_vars, codec, life>>

\* goto_defintion and open_virtual up to their send, mod.rs:96-113 and
\* 125-134.  Only an LSP value can be called: LSP::new has returned Ok.
LspCall(m) ==
    /\ lsp.pc = "ready"
    /\ Len(lsp.returns) < MaxFacadeReturns
    /\ Len(calls) < MaxSends
    /\ m = DefinitionMethod => Len(returns) < MaxResponseCalls
    /\ \E valid \in BOOLEAN :
          lsp' = IF valid
                 THEN [lsp EXCEPT !.pc = "send", !.method = m,
                                  !.nsend = Len(calls), !.closed = ChannelClosed]
                 ELSE [lsp EXCEPT !.method = m, !.closed = ChannelClosed,
                                  !.returns = Append(lsp.returns,
                                      [method |-> m, ok |-> FALSE,
                                       closed |-> ChannelClosed, value |-> <<>>,
                                       send |-> 0, resp |-> 0])]
    /\ UNCHANGED <<runner_vars, codec, life>>

\* self.sender.send(req), mod.rs:85, 114 and 135: the call of send.
LspSend ==
    /\ lsp.pc = "send"
    /\ Len(calls) = lsp.nsend
    /\ BeginSend(Owner, lsp.method, "params:{}")

\* send has returned, mod.rs:85, 114 and 135-136.
LspSent ==
    /\ lsp.pc = "send"
    /\ Len(calls) > lsp.nsend
    /\ calls[Len(calls)].ret # "pending"
    /\ lsp' =
          IF calls[Len(calls)].ret = "err"
          THEN IF lsp.method = InitializeMethod
               THEN [lsp EXCEPT !.pc = InitOutcome(FALSE)]
               ELSE [lsp EXCEPT !.pc = "ready", !.returns = FacadeReturn(FALSE, <<>>, 0)]
          ELSE IF lsp.method = DidOpenMethod
               THEN [lsp EXCEPT !.pc = "ready", !.returns = FacadeReturn(TRUE, <<>>, 0)]
               ELSE [lsp EXCEPT !.pc = "await", !.nret = Len(returns)]
    /\ UNCHANGED <<runner_vars, codec, life>>

\* self.runner.response(id), mod.rs:86 and 116: the call of response.
LspResponse ==
    /\ lsp.pc = "await"
    /\ Len(returns) = lsp.nret
    /\ cpc = "idle"
    /\ CallResponse(calls[Len(calls)].id)

\* response has returned, mod.rs:86-87 and 116.
LspReturned ==
    /\ lsp.pc = "await"
    /\ Len(returns) > lsp.nret
    /\ lsp' =
          LET ret == returns[Len(returns)]
              res == GotoResult(ret.response)
          IN IF lsp.method = InitializeMethod
             THEN [lsp EXCEPT !.pc = InitOutcome(ret.ok)]
             ELSE [lsp EXCEPT !.pc = "ready",
                              !.returns = FacadeReturn(ret.ok /\ res.ok,
                                  IF ret.ok THEN res.value ELSE <<>>,
                                  Len(returns))]
    /\ UNCHANGED <<runner_vars, codec, life>>

\* The server answers a request with a single Location object.
LocationBody(i) == <<"{", JsonrpcTok, IdTok(i), LocationResult, "}">>
LocationFrame(i) == Framed(FormatUsize(Len(LocationBody(i))), LocationBody(i))
ServerAnswersLocation ==
    \E i \in IssuedIds : ServerWrites(LocationFrame(i), Good(i))

\* The LSP facade on a fresh runner, its child and the reader task.
FacadeNext ==
    \/ LspNew
    \/ \E m \in FacadeCallMethods : LspCall(m)
    \/ LspSend
    \/ Lock(Owner)
    \/ Write(Owner)
    \/ WriteFail(Owner)
    \/ Flush(Owner)
    \/ FlushFail(Owner)
    \/ ChildClosesStdin
    \/ LspSent
    \/ LspResponse
    \/ RecvSome
    \/ RecvNone
    \/ LspReturned
    \/ ServerAnswers
    \/ ServerAnswersLocation
    \/ ServerWritesBad
    \/ ServerCloses
    \/ ReaderRead
    \/ ReaderSend

FacadeSpec == Init /\ [][FacadeNext]_vars

\* What the senders and the child's stdin do.
\* ----------------------------------------------------- the framing codec
\* What may follow a frame on the stream: nothing, or the start of another.
CodecTails == {<<>>, ContentLength \o <<":">>}

\* send up to its write, runner_standard.rs:189-195, for a request that takes
\* the id the counter holds: the frame's bytes, followed on the stream by tail.
CodecEncode(id, method, params, tail) ==
    /\ codec.pc = "idle"
    /\ LET msg == [from_serializable(method, params) EXCEPT !.id = id]
       IN /\ ~to_string_fails(msg)
          /\ codec' = [codec EXCEPT !.pc = "encoded", !.msg = msg,
                                    !.bytes = send_encoding(msg), !.tail = tail]
    /\ UNCHANGED <<runner_vars, lsp, life>>

\* The reader's frame decoding reads the frame back from the stream.
CodecDecode ==
    /\ codec.pc = "encoded"
    /\ codec' = [codec EXCEPT !.pc = "decoded",
                              !.frame = read_frame(codec.bytes \o codec.tail, FALSE)]
    /\ UNCHANGED <<runner_vars, lsp, life>>

CodecNext ==
    \/ \E id \in U32Sample, method \in FacadeMethods, params \in CodecParams,
          tail \in CodecTails : CodecEncode(id, method, params, tail)
    \/ CodecDecode

CodecSpec == Init /\ [][CodecNext]_vars

\* ------------------------------- a child that writes other messages too
\* The frames whose header and length are right and whose body is a JSON
\* object without all of jsonrpc, id and result: an error response, a
\* notification.
IncompleteFrames ==
    {b \in BadFrames :
        /\ read_frame(b, TRUE).st = "ok"
        /\ read_frame(b, TRUE).rest = <<>>
        /\ IsJsonObject(read_frame(b, TRUE).body)
        /\ ~from_slice_ok(read_frame(b, TRUE).body)}

\* The child writes a notification, a request of its own or an error response.
ServerNotifies ==
    /\ NumBad < MaxBadFrames
    /\ \E b \in IncompleteFrames : ServerWrites(b, Bad)

\* The runner of Spec with a child whose frames are all well framed: responses
\* and messages that are no successful response.
NotifyNext ==
    \/ \E m \in Methods : BeginSend(Owner, m, "params:{}")
    \/ Lock(Owner)
    \/ Write(Owner)
    \/ Flush(Owner)
    \/ ServerAnswers
    \/ ServerNotifies
    \/ ReaderRead
    \/ ReaderSend
    \/ \E r \in SentIds : CallResponse(r)
    \/ RecvSome
    \/ RecvNone

NotifySpec == Init /\ [][NotifyNext]_vars

\* ------------------------------------------- sends polled by one thread
\* self.writer.lock().unwrap(), runner_standard.rs:196, is std::sync::Mutex:
\* a send that finds the lock held does not yield, its thread blocks inside
\* lock() until the lock is free.
Parked(s) == spc[s] = "lock" /\ ~LockFree

\* A send yields its thread only at an await that is pending: in write_all,
\* runner_standard.rs:197, or in flush, runner_standard.rs:198.  From its
\* first poll up to there, through lock(), it runs without a break.
AtAwait(s) == spc[s] \in {"idle", "write", "flush"}

\* The thread that polls all the sends can poll s: every other send has
\* yielded.  The guard of the Mutex is not Send, so the future of send cannot
\* be handed to tokio::spawn: sends that run concurrently are futures of one
\* task, or tasks of one thread's LocalSet.
ThreadFree(s) == \A t \in Senders \ {s} : AtAwait(t)

JoinedSendNext ==
    \/ \E s \in Senders, m \in Methods, p \in Params :
          ThreadFree(s) /\ BeginSend(s, m, p)
    \/ \E s \in Senders : ThreadFree(s) /\ Lock(s)
    \/ \E s \in Senders : ThreadFree(s) /\ Write(s)
    \/ \E s \in Senders : ThreadFree(s) /\ WriteFail(s)
    \/ \E s \in Senders : ThreadFree(s) /\ Flush(s)
    \/ \E s \in Senders : ThreadFree(s) /\ FlushFail(s)
    \/ ChildClosesStdin

\* Concurrent sends polled by one thread; the thread runs whatever it can
\* run, and the sink accepts or rejects what it is given.
JoinedSendSpec ==
    /\ Init /\ [][JoinedSendNext]_vars
    /\ \A s \in Senders :
          /\ WF_vars(ThreadFree(s) /\ Lock(s))
          /\ WF_vars(ThreadFree(s) /\ (Write(s) \/ WriteFail(s)))
          /\ WF_vars(ThreadFree(s) /\ (Flush(s) \/ FlushFail(s)))

\* ------------------------------------------------- dropping the runner
\* Runner::sender, runner_standard.rs:109-114: one more clone of the Arc
\* around the child's stdin.
RunnerSender ==
    /\ life.runner = "alive"
    /\ life.writers < MaxWriters
    /\ life' = [life EXCEPT !.writers = @ + 1]
    /\ UNCHANGED <<runner_vars, lsp, codec>>

\* A StandardRunnerWriter that is not in a send is dropped.
DropWriter ==
    /\ life.writers > 0
    /\ spc[Owner] = "idle"
    /\ life' = [life EXCEPT !.writers = @ - 1]
    /\ UNCHANGED <<runner_vars, lsp, codec>>

\* The StandardRunner is dropped, runner_standard.rs:65-71: it has no Drop of
\* its own, so its fields are dropped.  The table and the Receiver go, and
\* with the Receiver what the channel holds; the runner's Arc of the writer
\* goes, the ChildStdin only with the last Arc; the Child was built without
\* kill_on_drop, runner_standard.rs:27-31, so the process is left running.
\* The reader task was detached at tokio::spawn, runner_standard.rs:79, and
\* keeps the ChildStdout.
DropRunner ==
    /\ life.runner = "alive"
    /\ cpc = "idle"
    /\ life' = [life EXCEPT !.runner = "dropped"]
    /\ chan' = <<>>
    /\ responses' = EmptyMap
    /\ UNCHANGED <<cpc, cr, returns, began>>
    /\ UNCHANGED <<sender_vars, server_vars, reader_vars, lsp, codec>>

\* start, runner_standard.rs:140: sync.send(res).await? fails once the
\* Receiver is gone, and the task ends.
ReaderSendFails ==
    /\ life.runner = "dropped"
    /\ rpc = "send"
    /\ rpc' = "done"
    /\ rres' = NoResponse
    /\ UNCHANGED rerrors
    /\ UNCHANGED <<sender_vars, server_vars, chan, caller_vars, lsp, codec, life>>

\* The child exits: both its ends of the pipes close.
ChildExits ==
    /\ life.child = "running"
    /\ life' = [life EXCEPT !.child = "exited"]
    /\ stdout_eof' = TRUE
    /\ stdin_broken' = TRUE
    /\ UNCHANGED <<stdout, served>>
    /\ UNCHANGED <<request, writer, stdin, spc, sbuf, calls, past>>
    /\ UNCHANGED <<reader_vars, chan, caller_vars, lsp, codec>>

\* The runtime reaps a child that was dropped and has exited.
Reap ==
    /\ life.runner = "dropped"
    /\ life.child = "exited"
    /\ ~life.reaped
    /\ life' = [life EXCEPT !.reaped = TRUE]
    /\ UNCHANGED <<runner_vars, lsp, codec>>

\* The parent's end of the child's stdin is closed: no Arc of it is left.
StdinClosed == life.runner = "dropped" /\ life.writers = 0

\* The parent's end of the child's stdout is closed: the reader task ended.
StdoutClosed == rpc = "done"

\* A runner, the writer it hands out, the reader task and the child, up to
\* and after the runner's drop.
DropNext ==
    \/ RunnerSender
    \/ DropWriter
    \/ DropRunner
    \/ ReaderSendFails
    \/ ChildExits
    \/ Reap
    \/ /\ life.writers > 0
       /\ \/ \E m \in Methods : BeginSend(Owner, m, "params:{}")
          \/ Lock(Owner)
          \/ Write(Owner)
          \/ Flush(Owner)
    \/ /\ life.runner = "alive"
       /\ \/ ReaderSend
          \/ \E r \in SentIds : CallResponse(r)
          \/ RecvSome
          \/ RecvNone
    \/ ServerAnswers
    \/ ServerCloses
    \/ ReaderRead

\* The same under the scheduling of the tokio runtime: the reader task and
\* the runtime's reaping take the steps they can take.  The child owes
\* nothing, and nobody owes the drop of a writer.
DropSpec ==
    /\ Init /\ [][DropNext]_vars
    /\ WF_vars(ReaderRead)
    /\ WF_vars(ReaderSend /\ life.runner = "alive")
    /\ WF_vars(ReaderSendFails)
    /\ WF_vars(Reap)

SendNext ==
    \/ \E s \in Senders, m \in Methods, p \in Params : BeginSend(s, m, p)
    \/ \E s \in Senders : Lock(s)
    \/ \E s \in Senders : Write(s)
    \/ \E s \in Senders : WriteFail(s)
    \/ \E s \in Senders : Flush(s)
    \/ \E s \in Senders : FlushFail(s)
    \/ ChildClosesStdin

\* One sender, the server, the reader task and the runner's owner.
Next ==
    \/ \E m \in Methods : BeginSend(Owner, m, "params:{}")
    \/ Lock(Owner)
    \/ Write(Owner)
    \/ Flush(Owner)
    \/ ServerAnswers
    \/ ServerWritesBad
    \/ ServerCloses
    \/ ReaderRead
    \/ ReaderSend
    \/ \E r \in SentIds : CallResponse(r)
    \/ RecvSome
    \/ RecvNone

\* The runner with the writer its facade holds, from construction.
Spec == Init /\ [][Next]_vars

\* Several StandardRunnerWriter clones sending concurrently, from construction.
SendSpec == Init /\ [][SendNext]_vars

\* The runner with the writer its facade holds and a child that may stop
\* reading its stdin at any moment, so that write_all or flush fails.
BrokenPipeNext ==
    \/ Next
    \/ WriteFail(Owner)
    \/ FlushFail(Owner)
    \/ ChildClosesStdin

BrokenPipeSpec == Init /\ [][BrokenPipeNext]_vars

\* The same under the scheduling of the tokio runtime, main.rs:128: a task
\* that can take its next step takes it.  The child owes nothing.
FairSpec ==
    /\ Spec
    /\ WF_vars(ReaderRead)
    /\ WF_vars(ReaderSend)
    /\ WF_vars(RecvSome)
    /\ WF_vars(RecvNone)

\* A runner whose owner has not called response for a while: requests 0 and 1
\* were sent, the child has answered request 0 ChannelCapacity times, and
\* the owner has claimed the first of these answers.  The others were decoded
\* and published, none received.  stdin and served list what is written from
\* here on.
FloodInit ==
    /\ request = 2
    /\ past = [origin |-> 0, failed |-> {}]
    /\ writer = 0
    /\ stdin = <<>>
    /\ stdin_broken = FALSE
    /\ spc = [s \in Senders |-> "idle"]
    /\ sbuf = [s \in Senders |-> <<>>]
    /\ calls = [i \in 1..2 |->
                  [s |-> Owner, id |-> i - 1,
                   method |-> "textDocument/definition", ret |-> "ok"]]
    /\ stdout = <<>>
    /\ stdout_eof = FALSE
    /\ served = <<>>
    /\ rpc = "read"
    /\ rres = NoResponse
    /\ rerrors = 0
    /\ chan = [k \in 1..(ChannelCapacity - 1) |->
                 read_response(ResponseFrame(0), FALSE).res]
    /\ responses = EmptyMap
    /\ cpc = "idle"
    /\ cr = 0
    /\ returns = <<[r |-> 0, ok |-> TRUE,
                    response |-> read_response(ResponseFrame(0), FALSE).res]>>
    /\ began = <<FALSE>>
    /\ lsp = NoFacade
    /\ codec = NoCodec
    /\ life = Born

\* The runner from construction or from FloodInit.
FloodSpec == (Init \/ FloodInit) /\ [][Next]_vars

\* A runner late in its life: the sends before the ones in calls took every
\* id below past.origin, so the counter, which started at 0 and moves by
\* fetch_add(1) alone, stands at past.origin; every frame written was
\* answered and every answer claimed.  past.failed holds ids of such earlier
\* sends that returned an error (the runner's first send may have).
AgedInit ==
    /\ request = U32_MAX - 1
    /\ past \in {[origin |-> U32_MAX - 1, failed |-> f] : f \in {{}, {0}}}
    /\ writer = 0
    /\ stdin = <<>>
    /\ stdin_broken = FALSE
    /\ spc = [s \in Senders |-> "idle"]
    /\ sbuf = [s \in Senders |-> <<>>]
    /\ calls = <<>>
    /\ stdout = <<>>
    /\ stdout_eof = FALSE
    /\ served = <<>>
    /\ rpc = "read"
    /\ rres = NoResponse
    /\ rerrors = 0
    /\ chan = <<>>
    /\ responses = EmptyMap
    /\ cpc = "idle"
    /\ cr = 0
    /\ returns = <<>>
    /\ began = <<>>
    /\ lsp = NoFacade
    /\ codec = NoCodec
    /\ life = Born

AgedSendSpec == AgedInit /\ [][SendNext]_vars

\* ------------------------------------------------------------- claims
\* The ids of the frames the channel holds.
ChanIds == {chan[k].id : k \in 1..Len(chan)}

\* The response call in progress can go on only if the server writes more
\* or closes its stdout: the channel is empty and the reader task is
\* suspended in a read that the bytes written so far do not complete.
Starved ==
    /\ cpc = "recv"
    /\ chan = <<>>
    /\ rpc = "read"
    /\ read_response(stdout, stdout_eof).st = "wait"

\* The response call in progress is about to return the closure error.
Doomed == cpc = "recv" /\ chan = <<>> /\ ChannelClosed

\* No earlier response call was made with the id of the k-th return.
FirstReturnFor(k) == \A j \in 1..(k - 1) : returns[j].r # returns[k].r

\* C1: every Ok(response) that response(r) returns carries response.id = r,
\* r being an id a send returned; no call receives another request's frame.
C1_NoCrossDelivery ==
    \A k \in 1..Len(returns) :
        returns[k].ok =>
            /\ returns[k].response.id = returns[k].r
            /\ returns[k].r \in SentIds

\* C1's case: a call got its own frame although the channel had delivered
\* another request's frame first, which the table now holds.
C1_Witness ==
    /\ \E k \in 1..Len(returns) : returns[k].ok
    /\ DOMAIN responses # {}

\* C2: requests 1 and 2 are outstanding and the server answers 2, then 1, and
\* nothing else: the first response(1) and the first response(2) both return
\* Ok, in whichever order they are made, without a further frame (so neither
\* returns the closure error, nor waits for bytes the server has not written).
C2_OutOfOrderDelivery ==
    (served = <<Good(2), Good(1)>>) =>
        /\ \A k \in 1..Len(returns) :
              (returns[k].r \in {1, 2} /\ FirstReturnFor(k)) => returns[k].ok
        /\ ~(/\ Starved
             /\ cr \in {1, 2}
             /\ \A j \in 1..Len(returns) : returns[j].r # cr)

\* C4: a frame with id r that the reader decoded before response(r) is called,
\* and that nobody claimed (it is in the channel, or in the responses table
\* since another id was awaited), makes response(r) return Ok without a
\* further frame: the call neither waits for more bytes from the server nor
\* returns the closure error.
C4_RetainedUntilClaimed ==
    (cpc = "recv" /\ (cr \in DOMAIN responses \/ cr \in ChanIds)) =>
        (~Starved /\ ~Doomed)

\* The frame send builds for the k-th call.
FrameOfCall(k) ==
    headers_of(to_string(Request(calls[k].id, calls[k].method, "params:{}")))

\* The calls whose frame the byte sequence w starts with.
FramesAt(w) == {k \in 1..Len(calls) : IsPrefix(FrameOfCall(k), w)}

\* The ids of the whole frames w starts with, in order.
RECURSIVE WireIds(_)
WireIds(w) ==
    IF FramesAt(w) = {} THEN <<>>
    ELSE LET k == CHOOSE k \in FramesAt(w) : TRUE
         IN <<calls[k].id>> \o WireIds(Drop(w, Len(FrameOfCall(k))))

\* What is left of w after the whole frames it starts with.
RECURSIVE WireRest(_)
WireRest(w) ==
    IF FramesAt(w) = {} THEN w
    ELSE LET k == CHOOSE k \in FramesAt(w) : TRUE
         IN WireRest(Drop(w, Len(FrameOfCall(k))))

\* The senders between the start of their write and the end of their flush.
Writing == {s \in Senders : spc[s] \in {"write", "flush"}}

\* b is exactly one more than a, as numbers.
OneMore(a, b) == a # U32_MAX /\ b = WrappingAdd1(a)

\* The ids of the frames the runner wrote before the ones in calls.
WasUsed(i) == U32Less(i, past.origin)

\* C5: over the life of one runner the ids send obtains start at 0, each is
\* exactly one more than the one before, no two sends obtain the same id, no
\* id is written to the wire twice, and the id on the wire is the counter's
\* value, not the 0 the Request was constructed with.
C5_UniqueIncreasingIds ==
    /\ (past.origin = 0 /\ calls # <<>>) => calls[1].id = 0
    /\ \A k \in 1..(Len(calls) - 1) : OneMore(calls[k].id, calls[k + 1].id)
    /\ \A j, k \in 1..Len(calls) : j # k => calls[j].id # calls[k].id
    /\ \A k \in 1..Len(calls) : ~WasUsed(calls[k].id)
    /\ \A j, k \in 1..Len(WireIds(stdin)) :
          j # k => WireIds(stdin)[j] # WireIds(stdin)[k]
    /\ \A k \in 1..Len(calls) : calls[k].ret = "ok" => FramesAt(FrameOfCall(k)) # {}

\* C6: a send that returns an error has advanced the counter all the same,
\* and no later send returns the id it was assigned.
C6_FailedSendConsumesId ==
    /\ \A k \in 1..Len(calls) :
          calls[k].ret = "err" =>
              /\ request # calls[k].id
              /\ \A j \in (k + 1)..Len(calls) : calls[j].id # calls[k].id
    /\ \A k \in 1..Len(calls) : calls[k].id \notin past.failed

\* C7: at most one sender is between the start of its write and the end of
\* its flush, and it is the one holding the lock; so the bytes the child
\* receives are whole frames one after the other, followed at most by the
\* part written so far of the one frame whose write is in progress or was cut
\* short by the write error that broke the pipe.
C7_FramesNeverInterleave ==
    /\ Cardinality(Writing) <= 1
    /\ \A s \in Senders : (s \in Writing) <=> (writer = s)
    /\ LET rest == WireRest(stdin)
       IN rest # <<>> =>
             \/ \E s \in Senders :
                   /\ spc[s] = "write"
                   /\ rest \o sbuf[s] = FrameOfCall(LastCall(s))
             \/ /\ stdin_broken
                /\ \E k \in 1..Len(calls) :
                      calls[k].ret = "err" /\ IsPrefix(rest, FrameOfCall(k))

\* C7's case: one sender has written the header block of its frame and not
\* yet the body, while another has its frame ready and waits for the lock.
C7_Witness ==
    \E s, t \in Senders :
        /\ spc[s] = "write"
        /\ WireRest(stdin) # <<>>
        /\ spc[t] = "lock"

\* C8: send takes its id inside the critical section in which it writes, so
\* the frames appear on the wire in strictly increasing id order.
C8_WireOrderIsIdOrder ==
    \A k \in 1..(Len(WireIds(stdin)) - 1) :
        U32Less(WireIds(stdin)[k], WireIds(stdin)[k + 1])

\* The child has written no well-formed response to request r.
Unanswered(r) == \A k \in 1..Len(served) : served[k] # Good(r)

\* The child's output has ended, or the reader loop has stopped.
Terminated == stdout_eof \/ rpc = "done"

\* The n-th call of response has returned an error.
ReturnedErr(n) == Len(returns) >= n /\ ~returns[n].ok

\* C3: once the child's output has reached end-of-stream, or the reader loop
\* has stopped on a decode error, every call response(r) for an unanswered r,
\* suspended before or made afterwards, returns an error: each call returns
\* once (returns grows by one entry, for the id the call was made with, as
\* the suspended call goes back to idle), and a call suspended for an
\* unanswered id once the stream has ended sooner or later returns an error.
C3_TerminationReleasesWaiters ==
    /\ [][returns' # returns =>
            /\ cpc = "recv"
            /\ cpc' = "idle"
            /\ Len(returns') = Len(returns) + 1
            /\ Take(returns', Len(returns)) = returns
            /\ returns'[Len(returns')].r = cr]_vars
    /\ [][cpc = "recv" /\ cpc' = "recv" => cr' = cr]_vars
    /\ \A n \in 1..MaxResponseCalls :
          (/\ Terminated
           /\ Unanswered(cr)
           /\ cpc = "recv"
           /\ Len(returns) = n - 1) ~> ReturnedErr(n)

\* C3's case: the child's output has ended, the reader loop has stopped, and
\* a call for an unanswered id has returned an error after another one did.
C3_Witness ==
    /\ stdout_eof
    /\ rpc = "done"
    /\ Len(returns) = 2
    /\ \A n \in 1..2 : ~returns[n].ok /\ Unanswered(returns[n].r)
    /\ returns[1].r # returns[2].r

\* The reader loop is suspended in read_response, in sync.send on a full
\* channel, or has ended.
ReaderBlockedReading ==
    rpc = "read" /\ read_response(stdout, stdout_eof).st = "wait"
ReaderBlockedOnFullChannel == rpc = "send" /\ Len(chan) = ChannelCapacity
ReaderTerminated == rpc = "done"

\* C9: whatever the read side is doing, a send in progress can take its next
\* step (take the lock, write, flush and return Ok with its id), so it never
\* waits for a response, the reader task or the owner; and whatever a send is
\* doing, the reader loop can decode a frame that is all there and publish it
\* to a channel that has room.
C9_SendNeverWaitsForReader ==
    /\ spc[Owner] = "lock" => ENABLED Lock(Owner)
    /\ spc[Owner] = "write" => ENABLED Write(Owner)
    /\ spc[Owner] = "flush" =>
          ENABLED (Flush(Owner) /\ Returned(Owner, "ok") = calls')
    /\ (rpc = "read" /\ ~ReaderBlockedReading) => ENABLED ReaderRead
    /\ (rpc = "send" /\ ~ReaderBlockedOnFullChannel) => ENABLED ReaderSend

\* C9's case: a send has gone through all its steps and returned while the
\* reader loop was suspended on a full channel.
C9_Witness ==
    /\ ReaderBlockedOnFullChannel
    /\ Len(calls) = MaxSends
    /\ calls[Len(calls)].ret = "ok"
    /\ WireIds(stdin) = <<calls[Len(calls)].id>>

\* chan2 is what is left of chan1 after recv has taken frames from its head.
IsSuffix(chan2, chan1) ==
    /\ Len(chan2) <= Len(chan1)
    /\ chan2 = Drop(chan1, Len(chan1) - Len(chan2))

\* C10: once read_response has failed, the reader loop publishes no frame any
\* more (the channel only loses the frames recv takes, and the loop stays
\* stopped, having failed once), whatever follows in the stream; and what
\* response has returned stays as it was.
C10_DecodeErrorHaltsDispatch ==
    [][rerrors >= 1 =>
          /\ IsSuffix(chan', chan)
          /\ rpc = "done" /\ rpc' = "done"
          /\ rerrors' = 1
          /\ Take(returns', Len(returns)) = returns]_vars

\* C10's case: read_response has failed, a well-formed frame has followed in
\* the stream, and a call of response has returned since.
C10_Witness ==
    /\ rerrors = 1
    /\ read_response(stdout, stdout_eof).st = "ok"
    /\ returns # <<>>

\* C11: an error response to request r fails the call for r only: when the
\* reader loop decodes it, read_response does not fail and the loop goes on
\* to the next frame.
C11_PerCallErrorsStayPerCall ==
    [][(/\ 0 \in SentIds
        /\ rpc = "read"
        /\ read_response(stdout, stdout_eof).st # "wait"
        /\ IsPrefix(ErrorResponseFrame(0), stdout)
        /\ stdout' # stdout)
          => (rerrors' = rerrors /\ rpc' # "done")]_vars

\* A send has returned an error; the step is one in which a send fails.
SomeSendFailed == \E k \in 1..Len(calls) : calls[k].ret = "err"
SendFails ==
    \E k \in 1..Len(calls) :
        /\ calls[k].ret = "pending"
        /\ Len(calls') = Len(calls)
        /\ calls'[k].ret = "err"

\* C12: the step in which a send fails on a write or flush error changes
\* nothing of the reader loop, the channel, the responses table or the
\* response call in progress; and after it, a call waiting for an id sent
\* earlier still returns Ok with its frame as soon as recv hands it over.
C12_WriteErrorIsLocal ==
    /\ [][SendFails =>
            UNCHANGED <<server_vars, reader_vars, chan, caller_vars>>]_vars
    /\ []((/\ SomeSendFailed
           /\ cpc = "recv"
           /\ chan # <<>>
           /\ Head(chan).id = cr)
            => ENABLED (/\ RecvSome
                        /\ returns' = Append(returns,
                              [r |-> cr, ok |-> TRUE, response |-> Head(chan)])))

\* C12's case: a send has failed on a broken pipe while a call of response
\* waits for an id sent before, and the frame for that id has since been
\* published.
C12_Witness ==
    /\ stdin_broken
    /\ Len(calls) >= 2
    /\ calls[Len(calls)].ret = "err"
    /\ cpc = "recv"
    /\ cr = calls[1].id
    /\ chan # <<>>
    /\ Head(chan).id = cr

\* The frame was handed to the table or to the waiter in this step.
Delivered(resp) ==
    \/ resp.id \in DOMAIN responses' /\ responses'[resp.id] = resp
    \/ /\ Len(returns') = Len(returns) + 1
       /\ returns'[Len(returns')] = [r |-> resp.id, ok |-> TRUE, response |-> resp]

\* C13: a frame the reader has decoded leaves the reader only into the
\* channel, and leaves the channel only from its head into the responses
\* table or to the waiter; the channel never holds more than 100 frames; with
\* 100 frames in it the reader keeps its frame and stays in the send, and it
\* can complete the send as soon as the channel has room.
C13_NoFrameDropped ==
    /\ [][(rpc = "send" /\ (rpc' # "send" \/ rres' # rres))
            => chan' = Append(chan, rres)]_vars
    /\ [][chan' # chan =>
            \/ rpc = "send" /\ chan' = Append(chan, rres)
            \/ chan # <<>> /\ chan' = Tail(chan) /\ Delivered(Head(chan))]_vars
    /\ [](Len(chan) <= ChannelCapacity)
    /\ []((rpc = "send" /\ Len(chan) < ChannelCapacity) => ENABLED ReaderSend)

\* C13's case: two more frames were decoded with 99 in the channel, a
\* response call has taken one frame, and the reader has completed both
\* sends: the channel holds 100 frames again and none was lost.
C13_Witness ==
    /\ Len(chan) = ChannelCapacity
    /\ rpc = "read"
    /\ Len(served) = 2
    /\ stdout = <<>>
    /\ rerrors = 0
    /\ Len(returns) = 2
    /\ returns[2].ok

\* How many well-formed frames for request i the child has written.
NumServed(i) == Cardinality({k \in 1..Len(served) : served[k] = Good(i)})

\* Where a decoded frame for request i can be: held by the reader between
\* read and send, in the channel, in the responses table, or returned.
NumHeld(i) == IF rpc = "send" /\ rres.id = i THEN 1 ELSE 0
NumInChannel(i) == Cardinality({k \in 1..Len(chan) : chan[k].id = i})
NumInTable(i) == IF i \in DOMAIN responses THEN 1 ELSE 0
NumReturned(i) ==
    Cardinality({k \in 1..Len(returns) : returns[k].ok /\ returns[k].response.id = i})

\* C14: a decoded frame is in one place at a time and is returned at most
\* once: for every id, the frames held by the reader, in the channel, in the
\* table and returned as Ok are together no more than the frames the child
\* wrote for that id, so no frame was sent through the channel twice, handed
\* to two calls or returned twice.
C14_AtMostOnceDispatch ==
    \A i \in IssuedIds :
        NumHeld(i) + NumInChannel(i) + NumInTable(i) + NumReturned(i)
            <= NumServed(i)

\* C14's case: the child answered a request once, a call of response has
\* returned that frame, and a second call for the same id has come back
\* without it.
C14_Witness ==
    /\ Len(returns) = 2
    /\ returns[1].ok
    /\ returns[2].r = returns[1].r
    /\ ~returns[2].ok
    /\ NumServed(returns[1].r) = 1

\* The id was obtained by exactly one send.
SentOnce(i) == Cardinality({k \in 1..Len(calls) : calls[k].id = i}) = 1

\* The step is a return of response with Ok for r.
ReturnsOk(r) ==
    /\ Len(returns') = Len(returns) + 1
    /\ returns'[Len(returns')].ok
    /\ returns'[Len(returns')].r = r

\* A call of response has returned Ok for r.
ReturnedOk(r) == \E k \in 1..Len(returns) : returns[k].ok /\ returns[k].r = r

\* C15: the responses table holds at most one frame per id, the entry
\* response(r) returns is removed as it returns, and for an id sent once at
\* most one call of response returns Ok.
C15_TableDiscipline ==
    [][/\ \A i \in DOMAIN responses' : responses'[i].id = i
       /\ \A r \in IssuedIds :
             ReturnsOk(r) =>
                 /\ r \notin DOMAIN responses'
                 /\ SentOnce(r) => ~ReturnedOk(r)]_vars

\* LSP::new has returned Ok: an LSP value exists.
LspExists ==
    \/ lsp.pc = "ready"
    \/ lsp.pc \in {"send", "await"} /\ lsp.method # InitializeMethod

\* C16: an LSP value exists only if the initialize request was sent and the
\* first call of response returned Ok with a frame of that request's id,
\* which the child wrote; as long as none exists, no call was made on one, so
\* nothing but the initialize request was sent.
C16_UsableOnlyAfterHandshake ==
    /\ LspExists =>
          /\ calls # <<>>
          /\ calls[1].method = InitializeMethod
          /\ calls[1].ret = "ok"
          /\ returns # <<>>
          /\ returns[1].ok
          /\ returns[1].r = calls[1].id
          /\ returns[1].response.id = calls[1].id
          /\ NumServed(calls[1].id) >= 1
    /\ ~LspExists =>
          /\ lsp.returns = <<>>
          /\ \A k \in 1..Len(calls) : calls[k].method = InitializeMethod

\* C16's case: the stream broke or ended before the frame for the initialize
\* request arrived, and LSP::new has returned an error.
C16_Witness ==
    /\ lsp.pc = "failed"
    /\ Len(calls) = 1
    /\ calls[1].ret = "ok"
    /\ Len(returns) = 1
    /\ ~returns[1].ok

\* The ids of the whole frames on the wire, as a set.
WireIdSet == {WireIds(stdin)[k] : k \in 1..Len(WireIds(stdin))}

\* The call in progress on the LSP value has begun its send.
SendBegun == lsp.pc \in {"send", "await"} /\ Len(calls) > lsp.nsend

\* C17: a goto_defintion call made once the reader loop has terminated
\* returns an error, writes nothing of a request frame to the child, and is
\* not left waiting: its response call can take its next step.
C17_CallsAfterClosureFail ==
    /\ \A k \in 1..Len(lsp.returns) :
          (lsp.returns[k].method = DefinitionMethod /\ lsp.returns[k].closed)
              => ~lsp.returns[k].ok
    /\ (lsp.closed /\ lsp.method = DefinitionMethod /\ SendBegun) =>
          /\ calls[Len(calls)].id \notin WireIdSet
          /\ \/ WireRest(stdin) = <<>>
             \/ ~IsPrefix(WireRest(stdin), FrameOfCall(Len(calls)))
    /\ (lsp.closed /\ lsp.method = DefinitionMethod /\ cpc = "recv") =>
          ENABLED (RecvSome \/ RecvNone)

\* The positions in calls of the initialize requests.
InitializeCalls == {k \in 1..Len(calls) : calls[k].method = InitializeMethod}

\* C18: at most one initialize request is ever sent, exactly one once an LSP
\* value exists; it is the first call of send, so its frame is the first on
\* the wire; and it went through send and response like every other call: it
\* is in calls with the id send gave it, and the first call of response was
\* for that id.
C18_HandshakeOnceAndFirst ==
    /\ InitializeCalls \subseteq {1}
    /\ LspExists => InitializeCalls = {1}
    /\ WireIds(stdin) # <<>> => WireIds(stdin)[1] = calls[1].id
    /\ (WireRest(stdin) # <<>> /\ WireIds(stdin) = <<>>) =>
          IsPrefix(WireRest(stdin), FrameOfCall(1))
    /\ returns # <<>> => returns[1].r = calls[1].id

\* C18's case: the initialize request and then a request of another method
\* were written on behalf of one LSP value.
C18_Witness ==
    /\ LspExists
    /\ Len(WireIds(stdin)) >= 2
    /\ calls[2].method \in FacadeCallMethods
    /\ WireIds(stdin)[2] = calls[2].id

\* The facade calls that asked for a definition with the runner's second
\* request and whose response call returned the frame the child wrote for id 1
\* with a single Location object.
AnsweredQueries ==
    {k \in 1..Len(lsp.returns) :
        /\ lsp.returns[k].method = DefinitionMethod
        /\ lsp.returns[k].send = 2
        /\ lsp.returns[k].resp > 0
        /\ returns[lsp.returns[k].resp].ok
        /\ returns[lsp.returns[k].resp].response.id = 1
        /\ returns[lsp.returns[k].resp].response.result = LocationResult}

\* C19: on a fresh runner the initialize request is sent with id 0 and the
\* call after it with id 1; once the response call for id 0 has returned the
\* child's frame with id 0 and an empty result object, LSP::new does not fail;
\* and a goto_defintion sent with id 1 whose response is the frame for id 1
\* with a single Location object returns exactly one location, with that
\* object's URI.
C19_HandshakeThenQuery ==
    /\ \A k \in 1..Len(calls) : calls[k].id = k - 1
    /\ calls # <<>> => calls[1].method = InitializeMethod
    /\ (/\ returns # <<>>
        /\ returns[1].ok
        /\ returns[1].response.id = 0
        /\ returns[1].response.result = EmptyResult) => lsp.pc # "failed"
    /\ \A k \in AnsweredQueries :
          /\ lsp.returns[k].ok
          /\ lsp.returns[k].value = <<LocationUri>>
          /\ calls[2].id = 1
          /\ returns[lsp.returns[k].resp].r = 1

\* C19's case: the handshake got the empty result for id 0, and the
\* goto_defintion after it, sent with id 1, has returned the one location.
C19_Witness ==
    /\ Len(returns) = 2
    /\ returns[1].response.id = 0
    /\ returns[1].response.result = EmptyResult
    /\ AnsweredQueries = {1}
    /\ lsp.returns[1].value = <<LocationUri>>
    /\ Len(WireIds(stdin)) = 2

\* C20: for every method, params and assigned id, the reader's frame decoding
\* of the bytes send's encoding produces finds a whole frame, its
\* content-length is the body's length in bytes, the body is the bytes of the
\* serialized request, its JSON carries exactly that id, method and params,
\* and what followed the frame on the stream is left unread.
C20_FramingRoundTrip ==
    codec.pc = "decoded" =>
        /\ codec.frame.st = "ok"
        /\ codec.frame.length = Len(codec.frame.body)
        /\ codec.frame.body = as_bytes(to_string(codec.msg))
        /\ IdsIn(codec.frame.body) = {codec.msg.id}
        /\ MethodsIn(codec.frame.body) = {codec.msg.method}
        /\ ParamsIn(codec.frame.body) = {codec.msg.content}
        /\ codec.frame.rest = codec.tail

\* C20's case: a request whose params are longer in bytes than in characters
\* and whose id is the largest u32 went through the encoding and the decoding,
\* with the start of another frame behind it.
C20_Witness ==
    /\ codec.pc = "decoded"
    /\ codec.msg.id = U32_MAX
    /\ codec.msg.content = WideParams
    /\ codec.tail # <<>>
    /\ codec.frame.length > Len(to_string(codec.msg))

\* The bytes of the well-formed frames entries[n+1], entries[n+2], ...
RECURSIVE FramesFrom(_, _)
FramesFrom(entries, n) ==
    IF n >= Len(entries) THEN <<>>
    ELSE ResponseFrame(entries[n + 1].id) \o FramesFrom(entries, n + 1)

\* The reader takes a step of read_response that returns.
ReaderReturns == rpc = "read" /\ rpc' # "read"

\* C21: a read_response that finds a well-formed frame at the head of the
\* stream returns that frame's response and leaves the stream at the first
\* byte after the frame's body; and as long as the child has written
\* well-formed frames only, what is left unread is always a whole number of
\* the frames it wrote, the last ones, in the order it wrote them: no byte is
\* skipped and none is read twice.
C21_DecodingConsumesOneFrame ==
    /\ [][\A i \in U32Sample :
             (ReaderReturns /\ IsPrefix(ResponseFrame(i), stdout)) =>
                 /\ rpc' = "send"
                 /\ rres'.id = i
                 /\ rres'.result = EmptyResult
                 /\ stdout' = Drop(stdout, Len(ResponseFrame(i)))]_vars
    /\ [](NumBad = 0 =>
             /\ rerrors = 0 \/ stdout_eof
             /\ \E n \in 0..Len(served) : stdout = FramesFrom(served, n))
    /\ [][(NumBad = 0 /\ ReaderReturns /\ rpc' = "send") =>
             \E n \in 1..Len(served) :
                 /\ stdout = FramesFrom(served, n - 1)
                 /\ stdout' = FramesFrom(served, n)
                 /\ rres'.id = served[n].id]_vars

\* C21's case: the child wrote two frames back to back, for different
\* requests; the reader has decoded the first and holds its response, and the
\* second is what is left of the stream.
C21_Witness ==
    /\ Len(served) = 2
    /\ NumBad = 0
    /\ served[1].id # served[2].id
    /\ rpc = "send"
    /\ rres.id = served[1].id
    /\ stdout = ResponseFrame(served[2].id)
    /\ chan = <<>>
    /\ returns = <<>>

\* The keys of the JSON object a request body is, jsonrpc's value included.
RequestMembers(msg) ==
    <<JsonrpcTok, IdTok(msg.id), MethodTok(msg.method), msg.content>>

\* C22: every frame send produces is the header "Content-Length: <n>", a
\* colon and a space between name and value, then CRLF CRLF and the JSON
\* body, where n is the length in bytes of the body and the body is a JSON
\* object with exactly the members jsonrpc ("2.0"), id, method and params.
C22_OutgoingFrameFormat ==
    codec.pc # "idle" =>
        LET body == as_bytes(to_string(codec.msg))
        IN /\ codec.bytes =
                 ContentLength \o <<":", " ">> \o FormatUsize(Len(body))
                     \o CRLF \o CRLF \o body
           /\ from_utf8(body) = <<"{">> \o RequestMembers(codec.msg) \o <<"}">>

\* C23: once the StandardRunner is dropped, eventually the parent's end of
\* the child's stdin is closed, the reader task has ended and closed the
\* parent's end of the child's stdout, and the child has been reaped.
C23_DropTearsDown ==
    (life.runner = "dropped") ~> (StdinClosed /\ StdoutClosed /\ life.reaped)

\* C24: the write lock is held only by a send that is writing or flushing,
\* so it is released on every return of send; and with concurrent sends on
\* one sink that accepts or rejects what it is given, every send that was
\* begun eventually returns.
C24_NoWriterDeadlock ==
    /\ [](\A s \in Senders : writer = s => spc[s] \in {"write", "flush"})
    /\ \A s \in Senders : (spc[s] # "idle") ~> (spc[s] = "idle")

\* read_response returns with a frame at the head of the stream whose body
\* lacks a member of Response.
ReadsIncomplete ==
    ReaderReturns /\ \E b \in IncompleteFrames : IsPrefix(b, stdout)

\* C25 as stated: a frame whose body lacks jsonrpc, a u32 id or result makes
\* read_response fail and ends the reader loop, and every call of response
\* begun after the loop ended returns an error.
C25_IncompleteFrameEndsSession ==
    /\ [][ReadsIncomplete => (rpc' = "done" /\ rerrors' = rerrors + 1)]_vars
    /\ [](\A k \in 1..Len(returns) : began[k] => ~returns[k].ok)

\* C25 amended: such a frame makes read_response fail and ends the reader
\* loop, the loop publishes nothing after it, and once the channel is closed
\* and the frames published before are all received, every return of
\* response is an error, whatever the table holds.
C25_IncompleteFrameEndsSessionOnceDrained ==
    /\ [][ReadsIncomplete => (rpc' = "done" /\ rerrors' = rerrors + 1)]_vars
    /\ [][rerrors >= 1 => (rpc' = "done" /\ IsSuffix(chan', chan))]_vars
    /\ [][(ChannelClosed /\ chan = <<>> /\ Len(returns') > Len(returns)) =>
             ~returns'[Len(returns')].ok]_vars

\* C25's case: the child wrote a response and then a message that is none;
\* the loop has ended on it, the response was received without being
\* claimed, and the call for the request it answers, begun after that,
\* returned the error.
C25_Witness ==
    /\ Len(served) = 2
    /\ served[1].ok
    /\ ~served[2].ok
    /\ rerrors = 1
    /\ rpc = "done"
    /\ Len(returns) = 2
    /\ ~returns[1].ok
    /\ began[2]
    /\ ~returns[2].ok
    /\ returns[2].r = served[1].id
    /\ returns[2].r \in DOMAIN responses

\* A call of response returns in this step.
ResponseReturns == Len(returns') > Len(returns)

\* C26: after the reader loop has ended, a call of response still receives
\* what the channel holds, from its head: each frame received goes into the
\* table under its id, or back to the caller as Ok when it carries the id the
\* call is for; and a call returns the error only when the channel is closed
\* and empty.
C26_BufferedFramesStillDelivered ==
    /\ []((ChannelClosed /\ chan # <<>> /\ cpc = "recv") =>
             (ENABLED RecvSome /\ ~ENABLED RecvNone))
    /\ [][(ChannelClosed /\ chan' # chan) =>
             /\ cpc = "recv"
             /\ chan' = Tail(chan)
             /\ IF Head(chan).id = cr
                THEN /\ ResponseReturns
                     /\ returns'[Len(returns')] =
                            [r |-> cr, ok |-> TRUE, response |-> Head(chan)]
                ELSE /\ Head(chan).id \in DOMAIN responses'
                     /\ responses'[Head(chan).id] = Head(chan)]_vars
    /\ [][(ResponseReturns /\ ~returns'[Len(returns')].ok) =>
             (ChannelClosed /\ chan = <<>> /\ chan' = <<>>)]_vars

\* C26's case: two frames were published and then the loop ended; a call
\* begun after that, for the request the second frame answers, has received
\* both, kept the first in the table and returned Ok.
C26_Witness ==
    /\ rpc = "done"
    /\ Len(served) = 2
    /\ served[1].ok /\ served[2].ok
    /\ served[1].id # served[2].id
    /\ Len(returns) = 1
    /\ began[1]
    /\ returns[1].ok
    /\ returns[1].r = served[2].id
    /\ served[1].id \in DOMAIN responses
    /\ chan = <<>>

\* C27: every frame a response(r) call receives with an id other than r is
\* in the table, under its id, after the step that received it; no step takes
\* an entry out of the table other than the return of Ok from response(r),
\* which takes out the entry with key r and no other; and an error return
\* leaves the table as it was.
C27_ResponseLeavesOtherEntries ==
    /\ [][(cpc = "recv" /\ chan # <<>> /\ chan' = Tail(chan)
                /\ Head(chan).id # cr) =>
             /\ Head(chan).id \in DOMAIN responses'
             /\ responses'[Head(chan).id] = Head(chan)
             /\ ~ResponseReturns \/ returns'[Len(returns')].ok]_vars
    /\ [][\A k \in DOMAIN responses :
             k \notin DOMAIN responses' =>
                 /\ k = cr
                 /\ ResponseReturns
                 /\ returns'[Len(returns')].ok
                 /\ returns'[Len(returns')].r = k]_vars
    /\ [][\A k \in DOMAIN responses \cap DOMAIN responses' :
             (responses'[k] # responses[k]) =>
                 (cpc = "recv" /\ chan # <<>> /\ responses'[k] = Head(chan))]_vars
    /\ [][(ResponseReturns /\ ~returns'[Len(returns')].ok) =>
             responses' = responses]_vars

\* C27's case: a call returned Ok and left in the table the frame it received
\* for another request; a later call, for a third request, returned the
\* error, and that entry is still there.
C27_Witness ==
    /\ Len(returns) = 2
    /\ returns[1].ok
    /\ ~returns[2].ok
    /\ returns[2].r # returns[1].r
    /\ DOMAIN responses # {}
    /\ returns[1].r \notin DOMAIN responses
    /\ returns[2].r \notin DOMAIN responses
    /\ \A k \in DOMAIN responses : responses[k].id = k

\* The frames decoded and not yet received, oldest first: the channel's, then
\* the one the reader holds.
Pending == chan \o (IF rpc = "send" THEN <<rres>> ELSE <<>>)

\* C28: the reader holds at most one decoded frame and publishes it, at the
\* tail of the channel, before it reads again; response takes frames from the
\* head, and each frame taken is in the table or returned in the same step.
\* So with a child that wrote well-formed frames only, the frames decoded and
\* not yet received are, in order, the frames the child wrote just before the
\* ones still unread: frames reach the table in the order of the stream.
C28_DeliveryPreservesStreamOrder ==
    /\ [](NumBad = 0 =>
             \E m \in 0..Len(served) :
                /\ stdout = FramesFrom(served, m)
                /\ Len(Pending) <= m
                /\ \A k \in 1..Len(Pending) :
                      Pending[k].id = served[m - Len(Pending) + k].id)
    /\ [][rpc = "send" =>
             \/ rpc' = "send" /\ rres' = rres /\ Len(chan') <= Len(chan)
             \/ rpc' = "read" /\ chan' = Append(chan, rres)]_vars
    /\ [][chan' # chan =>
             \/ rpc = "send" /\ chan' = Append(chan, rres)
             \/ /\ chan # <<>>
                /\ chan' = Tail(chan)
                /\ IF Head(chan).id = cr
                   THEN ResponseReturns /\ returns'[Len(returns')].response = Head(chan)
                   ELSE /\ Head(chan).id \in DOMAIN responses'
                        /\ responses'[Head(chan).id] = Head(chan)]_vars

\* C28's case: the child answered two requests, the later request first; a
\* call of response has put the first frame written in the table, and the
\* second is still in the channel.
C28_Witness ==
    /\ Len(served) = 2
    /\ NumBad = 0
    /\ U32Less(served[2].id, served[1].id)
    /\ cpc = "recv"
    /\ DOMAIN responses = {served[1].id}
    /\ Len(chan) = 1
    /\ chan[1].id = served[2].id
    /\ rpc = "read"
    /\ stdout = <<>>

\* The ids the open_virtual calls sent their requests with.
DidOpenIds ==
    {calls[k].id : k \in {j \in 1..Len(calls) : calls[j].method = DidOpenMethod}}

\* What the facade's calls have done so far, for C29.
FireAndForget ==
    /\ \A k \in 1..Len(lsp.returns) :
          (lsp.returns[k].method = DidOpenMethod /\ lsp.returns[k].ok) =>
              /\ lsp.returns[k].resp = 0
              /\ calls[lsp.returns[k].send].method = DidOpenMethod
              /\ calls[lsp.returns[k].send].ret = "ok"
              /\ Cardinality({j \in 1..Len(WireIds(stdin)) :
                     WireIds(stdin)[j] = calls[lsp.returns[k].send].id}) = 1
    /\ \A k \in 1..Len(calls) : calls[k].id = k - 1
    /\ \A k \in 1..Len(returns) : returns[k].r \notin DidOpenIds
    /\ (cpc = "recv") => cr \notin DidOpenIds
    /\ \A k \in 1..Len(lsp.returns) :
          (lsp.returns[k].method = DefinitionMethod /\ lsp.returns[k].resp > 0
           /\ returns[lsp.returns[k].resp].ok) =>
              /\ returns[lsp.returns[k].resp].r = calls[lsp.returns[k].send].id
              /\ returns[lsp.returns[k].resp].response.id =
                     calls[lsp.returns[k].send].id
    /\ \A i \in DOMAIN responses : responses[i].id = i

\* C29: an open_virtual that returned Ok took one id and wrote one frame with
\* it, and made no call of response; the ids go up by one from call to call,
\* so the goto_defintion after it has the next id; response was never called
\* for an open_virtual id, a goto_defintion that returned Ok got the frame
\* with its own id, and a frame received for an open_virtual id stays in the
\* table: no step takes it out.
C29_OpenVirtualFireAndForget ==
    /\ []FireAndForget
    /\ [][\A i \in DidOpenIds :
             i \in DOMAIN responses => i \in DOMAIN responses']_vars

\* C29's case: open_virtual returned after its send, with id 1; the
\* goto_defintion after it was sent with id 2 and is waiting; the child's
\* frame for id 1 has been received and is in the table, and the wait goes on.
C29_Witness ==
    /\ Len(lsp.returns) = 1
    /\ lsp.returns[1].method = DidOpenMethod
    /\ lsp.returns[1].ok
    /\ lsp.method = DefinitionMethod
    /\ lsp.pc = "await"
    /\ cpc = "recv"
    /\ cr = 2
    /\ DOMAIN responses = {1}
    /\ chan = <<>>
    /\ rpc = "read"
    /\ stdout = <<>>

\* A send takes its id in this step.
TakesId == Len(calls') = Len(calls) + 1

\* C30: the counter wraps: a send that takes its id when the counter stands
\* at the largest u32 gets that value, as every send gets the counter's, and
\* leaves the counter at 0, so the next send gets 0; with the counter at the
\* largest u32 a sender that is idle can begin its send; and a send that got
\* the largest u32 returns like any other, failing only on a pipe that is
\* broken or on params that do not serialize, in which case it wrote nothing.
C30_CounterWraps ==
    /\ [][TakesId =>
             /\ calls'[Len(calls')].id = request
             /\ request = U32_MAX => request' = 0]_vars
    /\ [](\A k \in 1..(Len(calls) - 1) :
             calls[k].id = U32_MAX => calls[k + 1].id = 0)
    /\ []((request = U32_MAX /\ Len(calls) < MaxSends) =>
             \A s \in Senders :
                spc[s] = "idle" => ENABLED BeginSend(s, DefinitionMethod, "params:{}"))
    /\ [](\A k \in 1..Len(calls) :
             (calls[k].id = U32_MAX /\ calls[k].ret = "err") =>
                 stdin_broken \/ U32_MAX \notin WireIdSet)

\* C30's case: a send got the largest u32 and returned it, the next send got
\* 0 and returned it, and both frames are on the wire in that order.
C30_Witness ==
    /\ Len(calls) = 3
    /\ calls[2].id = U32_MAX
    /\ calls[2].ret = "ok"
    /\ calls[3].id = 0
    /\ calls[3].ret = "ok"
    /\ Len(WireIds(stdin)) >= 2
    /\ WireIds(stdin)[Len(WireIds(stdin)) - 1] = U32_MAX
    /\ WireIds(stdin)[Len(WireIds(stdin))] = 0

=============================================================================
